---- MODULE Spec2Model ----
(***************************************************************************)
(* The two CSV import scripts of metabase-mongo-docker as state machines:  *)
(*   scripts/import_deals_csv.py      (specification Spec)                 *)
(*   scripts/import_clockodo_data.py  (specification SpecClock)            *)
(*                                                                         *)
(* The state is the target collection of the document store (its documents *)
(* in insertion order and its indexes), the CSV file the script is run on, *)
(* and the running process: its position, its local counters, its client   *)
(* handle, what it printed and its exit status.  A process can be started  *)
(* again after it ended; the collection and the file persist.              *)
(*                                                                         *)
(* Python strings that the code inspects character by character are        *)
(* sequences of one-character strings.  A document keeps the fields that   *)
(* the code treats specially: deal_id and value (every numeric deal field  *)
(* goes through the same parse_number) for a deal, the four quoted string  *)
(* fields and stunden for a timesheet record.                              *)
(***************************************************************************)
EXTENDS Integers, Sequences, FiniteSets, TLC

VARIABLES
    file,        \* the CSV file: [exists, header_ok, rows]
    docs,        \* the collection: documents in insertion order
    indexes,     \* the collection's indexes
    pc,          \* position of the process
    run,         \* number of processes started so far
    idx,         \* 1-based number of the next row the reader yields
    imported,    \* imported_count
    skipped,     \* skipped_count
    warnings,    \* number of "Warning: Could not parse ..." lines printed
    row_errors,  \* number of "Error processing row: ..." lines printed
    prompted,    \* the clear-first prompt was shown in this run
    response,    \* the answer read at the prompt
    client,      \* "none", "open" or "closed"
    closes,      \* number of client.close() calls of this run
    exit_code,   \* -1 while running, else the exit status
    reported,    \* the final counts / the success line were printed
    failed_msg,  \* a top-level failure message was printed
    err,         \* the exception raised in the last step, "none" if none
    ix,          \* number of create_index calls that returned in this run
    cleared,     \* delete_many({}) was issued in this run
    docs0,       \* history: the collection when the process was started
    exits        \* history: the exit statuses of the processes that ended

vars == <<file, docs, indexes, pc, run, idx, imported, skipped, warnings,
          row_errors, prompted, response, client, closes, exit_code,
          reported, failed_msg, err, ix, cleared, docs0, exits>>

(***************************************************************************)
(* Bounds of the model.                                                    *)
(***************************************************************************)
MaxRows == 2
MaxRuns == 2
MaxStrLen == 3

(***************************************************************************)
(* Python string operations.                                               *)
(***************************************************************************)
None == "None"
Quote == "\""
Whitespace == {" "}
Digits == {"1", "5"}

RECURSIVE LStrip(_, _)
LStrip(s, cs) ==
    IF s # <<>> /\ Head(s) \in cs THEN LStrip(Tail(s), cs) ELSE s

RECURSIVE RStrip(_, _)
RStrip(s, cs) ==
    IF s # <<>> /\ s[Len(s)] \in cs
    THEN RStrip(SubSeq(s, 1, Len(s) - 1), cs)
    ELSE s

\* str.strip(chars): every leading and every trailing character in chars
PyStrip(s, cs) == RStrip(LStrip(s, cs), cs)

\* str.replace(old, new) for one-character old and new
PyReplace(s, old, new) == [i \in 1..Len(s) |-> IF s[i] = old THEN new ELSE s[i]]

\* str.lower()
PyLower(s) == [i \in 1..Len(s) |-> IF s[i] = "Y" THEN "y"
                                   ELSE IF s[i] = "N" THEN "n" ELSE s[i]]

DigitVal(c) == IF c = "1" THEN 1 ELSE 5

RECURSIVE IntOf(_)
IntOf(ds) ==
    IF ds = <<>> THEN 0
    ELSE 10 * IntOf(SubSeq(ds, 1, Len(ds) - 1)) + DigitVal(ds[Len(ds)])

RECURSIVE Pow10(_)
Pow10(n) == IF n = 0 THEN 1 ELSE 10 * Pow10(n - 1)

\* float(s) accepts s: surrounding whitespace, digits, at most one point,
\* at least one digit (signs, exponents, inf/nan are outside the alphabet)
FloatAccepts(s) ==
    LET t == PyStrip(s, Whitespace)
    IN  /\ t # <<>>
        /\ \A i \in 1..Len(t) : t[i] \in Digits \cup {"."}
        /\ Cardinality({i \in 1..Len(t) : t[i] = "."}) <= 1
        /\ \E i \in 1..Len(t) : t[i] \in Digits

\* float(s) of an accepted s, in thousandths
PyFloat(s) ==
    LET t == PyStrip(s, Whitespace)
        p == IF \E i \in 1..Len(t) : t[i] = "."
             THEN CHOOSE i \in 1..Len(t) : t[i] = "."
             ELSE Len(t) + 1
        ip == SubSeq(t, 1, p - 1)
        fp == SubSeq(t, p + 1, Len(t))
    IN  IntOf(ip \o fp) * Pow10(3 - Len(fp))

(***************************************************************************)
(* import_deals_csv.py: the row transformer.                               *)
(***************************************************************************)
\* parse_number prints a warning for value_str
parse_number_warns(value_str) ==
    /\ ~(value_str = <<>> \/ PyStrip(value_str, Whitespace) = <<>>)
    /\ ~FloatAccepts(value_str)

parse_number(value_str) ==
    IF value_str = <<>> \/ PyStrip(value_str, Whitespace) = <<>>
    THEN None
    ELSE IF FloatAccepts(value_str) THEN PyFloat(value_str) ELSE None

transform_deal_row(row) ==
    [deal_id |-> row.id, value |-> parse_number(row.wert)]

\* variant: a parse_number that lets the ValueError of float() through
transform_raises_on_malformed(f, row) ==
    ~f.header_ok \/ parse_number_warns(row.wert)

\* transform_deal_row raises: only a column missing from the header does
\* (KeyError); parse_number catches the ValueError of float()
transform_deal_row_raises(f, row) == ~f.header_ok

\* variant: every answer but n clears
ShouldClearUnlessNo(r) == PyLower(r) # <<"n">>

\* the answer at the prompt asks for the collection to be cleared
ShouldClear(r) == PyLower(r) = <<"y">>

(***************************************************************************)
(* The document store, as the scripts use it.                              *)
(***************************************************************************)
UniqueDealId == [key |-> "deal_id", unique |-> TRUE, sparse |-> TRUE]
PlainIndex(k) == [key |-> k, unique |-> FALSE, sparse |-> FALSE]

\* the create_index calls of the deals import, in order
DealIndexes ==
    << UniqueDealId, PlainIndex("status"), PlainIndex("owner"),
       PlainIndex("organization"), PlainIndex("created_date") >>

\* variant: an insert that leaves out a document the collection already holds
insert_if_absent(coll, doc) ==
    IF \E i \in 1..Len(coll) : coll[i] = doc THEN coll ELSE Append(coll, doc)

\* insert_one(doc) on a collection that accepts doc
insert_one(coll, doc) == Append(coll, doc)

\* find_one({'deal_id': id}) returns a document
find_one(coll, id) == \E i \in 1..Len(coll) : coll[i].deal_id = id

\* the number of documents of coll whose deal_id is id
CountId(coll, id) == Cardinality({i \in 1..Len(coll) : coll[i].deal_id = id})

\* two documents of coll carry the same deal_id
HasDuplicateId(coll) ==
    \E i, j \in 1..Len(coll) : i # j /\ coll[i].deal_id = coll[j].deal_id

\* insert_one(doc) raises DuplicateKeyError: the unique index on deal_id
\* covers every document that has the field, whatever its value
InsertViolatesIndex(coll, ixs, doc) ==
    UniqueDealId \in ixs /\ find_one(coll, doc.deal_id)

\* create_index(index) raises: a unique index cannot be built over duplicates
CreateIndexFails(coll, ixs, index) ==
    index \notin ixs /\ index.unique /\ HasDuplicateId(coll)

(***************************************************************************)
(* Inputs.                                                                 *)
(***************************************************************************)
DealIds == {"", "a", "b"}
\* sample rows: every deal identifier, and a Deal - Wert that is a number,
\* malformed, empty and blank
DealRows ==
    { [id |-> "",  wert |-> <<"1", ".", "5">>],
      [id |-> "a", wert |-> <<"1", ".", "5">>],
      [id |-> "a", wert |-> <<"1", ",", "5">>],
      [id |-> "b", wert |-> <<>>],
      [id |-> "b", wert |-> <<" ">>] }
DummyDealRow == [id |-> "a", wert |-> <<>>]

SeqsUpTo(S, n) == UNION { [1..k -> S] : k \in 0..n }

\* a file that is missing, files whose header lacks a column the transformer
\* reads (every row then raises KeyError), and well-formed files
NoFile == [exists |-> FALSE, header_ok |-> TRUE, rows |-> <<>>]
DealFiles ==
    {NoFile}
    \cup { [exists |-> TRUE, header_ok |-> FALSE, rows |-> [i \in 1..k |-> DummyDealRow]] :
             k \in 1..MaxRows }
    \cup { [exists |-> TRUE, header_ok |-> TRUE, rows |-> r] :
             r \in SeqsUpTo(DealRows, MaxRows) }

\* the collection before the first run: empty, or holding a deal that no
\* row of the files carries
InitialDeals == { <<>>, << [deal_id |-> "c", value |-> None] >> }

Responses == { <<>>, <<"y">>, <<"Y">>, <<"n">>, <<"y", "e", "s">>, <<" ", "y">> }

(***************************************************************************)
(* import_deals_csv.py: main.                                              *)
(***************************************************************************)
Init ==
    /\ file \in DealFiles
    /\ docs \in InitialDeals
    /\ indexes = {}
    /\ pc = "idle"
    /\ run = 0
    /\ idx = 1
    /\ imported = 0
    /\ skipped = 0
    /\ warnings = 0
    /\ row_errors = 0
    /\ prompted = FALSE
    /\ response = <<>>
    /\ client = "none"
    /\ closes = 0
    /\ exit_code = -1
    /\ reported = FALSE
    /\ failed_msg = FALSE
    /\ err = "none"
    /\ ix = 0
    /\ cleared = FALSE
    /\ docs0 = docs
    /\ exits = <<>>

\* a fresh process: its locals, its output and its client handle
StartLocals ==
    /\ run' = run + 1
    /\ idx' = 1
    /\ imported' = 0
    /\ skipped' = 0
    /\ warnings' = 0
    /\ row_errors' = 0
    /\ prompted' = FALSE
    /\ response' = <<>>
    /\ client' = "none"
    /\ closes' = 0
    /\ reported' = FALSE
    /\ err' = "none"
    /\ ix' = 0
    /\ cleared' = FALSE
    /\ docs0' = docs

\* the process goes on to position p
Continue(p) ==
    /\ pc' = p
    /\ err' = "none"
    /\ UNCHANGED <<exit_code, failed_msg, client, closes, exits>>

\* the process ends with status code
Exit(code) ==
    /\ pc' = "done"
    /\ exit_code' = code
    /\ exits' = Append(exits, code)

\* lines 161-170: the except clauses print the error and call sys.exit(1);
\* the finally clause closes the client when there is one
DFatal(e) ==
    /\ Exit(1)
    /\ failed_msg' = TRUE
    /\ err' = e
    /\ client' = IF client = "open" THEN "closed" ELSE client
    /\ closes' = IF client = "open" THEN closes + 1 ELSE closes

\* lines 73-91: the process starts; a missing file ends it before the try
DStart ==
    /\ pc \in {"idle", "done"}
    /\ run < MaxRuns
    /\ StartLocals
    /\ IF file.exists
       THEN pc' = "connect" /\ exit_code' = -1 /\ failed_msg' = FALSE
            /\ UNCHANGED exits
       ELSE Exit(1) /\ failed_msg' = TRUE
    /\ UNCHANGED <<file, docs, indexes>>

\* lines 93-104: MongoClient(...) and the ismaster connection test
DConnect ==
    /\ pc = "connect"
    /\ \E outcome \in {"bad_uri", "no_server", "ok"} :
         \/ /\ outcome = "bad_uri"          \* the constructor raises: no client
            /\ DFatal("InvalidURI")
         \/ /\ outcome = "no_server"        \* ismaster raises ConnectionFailure
            /\ Exit(1)
            /\ failed_msg' = TRUE
            /\ err' = "ConnectionFailure"
            /\ client' = "closed" /\ closes' = closes + 1
         \/ /\ outcome = "ok"
            /\ pc' = "count" /\ client' = "open" /\ err' = "none"
            /\ UNCHANGED <<exit_code, failed_msg, closes, exits>>
    /\ UNCHANGED <<file, docs, indexes, run, idx, imported, skipped, warnings,
                   row_errors, prompted, response, reported, ix, cleared, docs0>>

\* lines 112-117: count_documents({}) decides whether the prompt is shown
DCount ==
    /\ pc = "count"
    /\ \E sink_ok \in BOOLEAN :
         IF sink_ok
         THEN Continue(IF Len(docs) > 0 THEN "prompt" ELSE "stream")
         ELSE DFatal("SinkError")
    /\ UNCHANGED <<file, docs, indexes, run, idx, imported, skipped, warnings,
                   row_errors, prompted, response, reported, ix, cleared, docs0>>

\* line 118: the prompt; input() may raise (end of input, interrupt)
DPrompt ==
    /\ pc = "prompt"
    /\ prompted' = TRUE
    /\ \/ /\ DFatal("Abort")
          /\ UNCHANGED response
       \/ \E r \in Responses :
            /\ response' = r
            /\ Continue("answer")
    /\ UNCHANGED <<file, docs, indexes, run, idx, imported, skipped, warnings,
                   row_errors, reported, ix, cleared, docs0>>

\* lines 119-121: the answer decides whether delete_many({}) is issued;
\* response is not read again and is dropped from the state
DAnswer ==
    /\ pc = "answer"
    /\ response' = <<>>
    /\ IF ShouldClear(response)
       THEN /\ cleared' = TRUE
            /\ \E sink_ok \in BOOLEAN :
                 IF sink_ok
                 THEN docs' = <<>> /\ Continue("stream")
                 ELSE DFatal("SinkError") /\ UNCHANGED docs
       ELSE Continue("stream") /\ UNCHANGED <<docs, cleared>>
    /\ UNCHANGED <<file, indexes, run, idx, imported, skipped, warnings,
                   row_errors, prompted, reported, ix, docs0>>

\* variant: a row loop without its own except clause
DRowAbort(e) ==
    /\ DFatal(e)
    /\ UNCHANGED <<docs, imported, skipped, row_errors, idx>>

\* lines 143-145: the except clause of the row loop
DRowError(e) ==
    /\ err' = e
    /\ row_errors' = row_errors + 1
    /\ pc' = "stream"
    /\ idx' = idx + 1
    /\ UNCHANGED <<docs, imported, skipped, exit_code, failed_msg, client,
                   closes, exits>>

\* lines 123-141: one iteration of the row loop
DRow ==
    /\ pc = "stream"
    /\ idx <= Len(file.rows)
    /\ LET row == file.rows[idx]
           deal_doc == transform_deal_row(row)
       IN  IF transform_deal_row_raises(file, row)
           THEN DRowError("KeyError") /\ UNCHANGED warnings
           ELSE /\ warnings' = warnings + IF parse_number_warns(row.wert) THEN 1 ELSE 0
                /\ \E find_ok \in BOOLEAN, insert_ok \in BOOLEAN :
                     IF deal_doc.deal_id # "" /\ ~find_ok
                     THEN DRowError("SinkError")
                     ELSE IF deal_doc.deal_id # "" /\ find_one(docs, deal_doc.deal_id)
                     THEN /\ skipped' = skipped + 1
                          /\ idx' = idx + 1
                          /\ Continue("stream")
                          /\ UNCHANGED <<docs, imported, row_errors>>
                     ELSE IF ~insert_ok
                     THEN DRowError("SinkError")
                     ELSE IF InsertViolatesIndex(docs, indexes, deal_doc)
                     THEN DRowError("DuplicateKeyError")
                     ELSE /\ docs' = insert_one(docs, deal_doc)
                          /\ imported' = imported + 1
                          /\ idx' = idx + 1
                          /\ Continue("stream")
                          /\ UNCHANGED <<skipped, row_errors>>
    /\ UNCHANGED <<file, indexes, run, prompted, response, reported, ix,
                   cleared, docs0>>

\* lines 147-150: the reader is exhausted; the counts are printed
DReport ==
    /\ pc = "stream"
    /\ idx > Len(file.rows)
    /\ reported' = TRUE
    /\ \E sink_ok \in BOOLEAN :
         IF sink_ok THEN Continue("index") ELSE DFatal("SinkError")
    /\ UNCHANGED <<file, docs, indexes, run, idx, imported, skipped, warnings,
                   row_errors, prompted, response, ix, cleared, docs0>>

\* lines 152-170: the five create_index calls, in order.  The first call
\* that raises (a duplicate key under the unique index, or the sink failing)
\* ends the run in the except clause, the indexes created before it stay;
\* after the fifth the process leaves the try, closes the client and ends
\* with status 0
DIndex ==
    /\ pc = "index"
    /\ \E n \in 0..Len(DealIndexes) :        \* the calls that return
         /\ \A i \in 1..n : ~CreateIndexFails(docs, indexes, DealIndexes[i])
         /\ indexes' = indexes \cup { DealIndexes[i] : i \in 1..n }
         /\ ix' = n
         /\ IF n = Len(DealIndexes)
            THEN /\ Exit(0)
                 /\ err' = "none"
                 /\ client' = "closed" /\ closes' = closes + 1
                 /\ UNCHANGED failed_msg
            ELSE \E sink_ok \in BOOLEAN :
                   /\ ~sink_ok \/ CreateIndexFails(docs, indexes, DealIndexes[n + 1])
                   /\ DFatal(IF sink_ok THEN "DuplicateKeyError" ELSE "SinkError")
    /\ UNCHANGED <<file, docs, run, idx, imported, skipped, warnings,
                   row_errors, prompted, response, reported, cleared, docs0>>

Next ==
    \/ DStart
    \/ DConnect
    \/ DCount
    \/ DPrompt
    \/ DAnswer
    \/ DRow
    \/ DReport
    \/ DIndex

Spec == Init /\ [][Next]_vars

(***************************************************************************)
(* import_clockodo_data.py: the row transformer.                           *)
(***************************************************************************)
\* float() raises ValueError on what parse_german_number hands it
parse_german_number_raises(value) ==
    value # <<>> /\ ~FloatAccepts(PyReplace(value, ",", "."))

parse_german_number(value) ==
    IF value = <<>> THEN 0 ELSE PyFloat(PyReplace(value, ",", "."))

\* variant: only the leading quote characters are removed
clockodo_document_lstrip(row) ==
    [kunde       |-> LStrip(row.kunde, {Quote}),
     projekt     |-> LStrip(row.projekt, {Quote}),
     leistung    |-> LStrip(row.leistung, {Quote}),
     mitarbeiter |-> LStrip(row.mitarbeiter, {Quote}),
     stunden     |-> parse_german_number(row.stunden)]

\* the document built for one row
clockodo_document(row) ==
    [kunde       |-> PyStrip(row.kunde, {Quote}),
     projekt     |-> PyStrip(row.projekt, {Quote}),
     leistung    |-> PyStrip(row.leistung, {Quote}),
     mitarbeiter |-> PyStrip(row.mitarbeiter, {Quote}),
     stunden     |-> parse_german_number(row.stunden)]

\* building the document raises: a column missing from the header
\* (KeyError) or a malformed number (ValueError)
clockodo_document_raises(f, row) ==
    ~f.header_ok \/ parse_german_number_raises(row.stunden)

(***************************************************************************)
(* Inputs of the timesheet import.                                         *)
(***************************************************************************)
ClockRow(s, t, n) ==
    [kunde |-> s, projekt |-> t, leistung |-> t, mitarbeiter |-> s, stunden |-> n]

\* sample rows: quoted and unquoted strings; Stunden a German number, empty,
\* malformed and blank
ClockRows ==
    { ClockRow(<<"a">>, <<"a">>, <<"1", ",", "5">>),
      ClockRow(<<Quote, "a", Quote>>, <<"a">>, <<>>),
      ClockRow(<<"a">>, <<"a">>, <<"x">>),
      ClockRow(<<"a">>, <<"a">>, <<" ">>) }

\* every string of quote characters and letters up to MaxStrLen
QuotedStrings == SeqsUpTo({Quote, "a"}, MaxStrLen)

ClockFiles ==
    {NoFile}
    \cup { [exists |-> TRUE, header_ok |-> FALSE,
            rows |-> [i \in 1..k |-> ClockRow(<<"a">>, <<"a">>, <<>>)]] :
             k \in 1..MaxRows }
    \cup { [exists |-> TRUE, header_ok |-> TRUE, rows |-> r] :
             r \in SeqsUpTo(ClockRows, MaxRows) }
    \cup { [exists |-> TRUE, header_ok |-> TRUE,
            rows |-> << ClockRow(s, t, <<"1", ".", "5">>) >>] :
             s \in QuotedStrings, t \in QuotedStrings }

(***************************************************************************)
(* import_clockodo_data.py: main and import_clockodo_data.                 *)
(***************************************************************************)
InitClock ==
    /\ file \in ClockFiles
    /\ docs = <<>>
    /\ indexes = {}
    /\ pc = "idle"
    /\ run = 0
    /\ idx = 1
    /\ imported = 0
    /\ skipped = 0
    /\ warnings = 0
    /\ row_errors = 0
    /\ prompted = FALSE
    /\ response = <<>>
    /\ client = "none"
    /\ closes = 0
    /\ exit_code = -1
    /\ reported = FALSE
    /\ failed_msg = FALSE
    /\ err = "none"
    /\ ix = 0
    /\ cleared = FALSE
    /\ docs0 = <<>>
    /\ exits = <<>>

\* lines 81-139: the environment and the file are checked before the import
CStart ==
    /\ pc \in {"idle", "done"}
    /\ run < MaxRuns
    /\ StartLocals
    /\ \E env_ok \in BOOLEAN :
         IF env_ok /\ file.exists
         THEN pc' = "connect" /\ exit_code' = -1 /\ failed_msg' = FALSE
              /\ UNCHANGED exits
         ELSE Exit(1) /\ failed_msg' = TRUE
    /\ UNCHANGED <<file, docs, indexes>>

\* lines 36-43 (and 142-152 on failure): the client and the collection handle.
\* An exception of client[database_name] or db[collection_name] (an invalid
\* name) is raised after the client was created; the except clause returns
\* False and nothing closes the client
CConnect ==
    /\ pc = "connect"
    /\ \E outcome \in {"bad_uri", "bad_name", "ok"} :
         \/ /\ outcome = "bad_uri"
            /\ Exit(1) /\ failed_msg' = TRUE /\ err' = "InvalidURI"
            /\ UNCHANGED <<client, closes>>
         \/ /\ outcome = "bad_name"
            /\ Exit(1) /\ failed_msg' = TRUE /\ err' = "InvalidName"
            /\ client' = "open"
            /\ UNCHANGED closes
         \/ /\ outcome = "ok"
            /\ pc' = "stream" /\ client' = "open" /\ err' = "none"
            /\ UNCHANGED <<exit_code, failed_msg, closes, exits>>
    /\ UNCHANGED <<file, docs, indexes, run, idx, imported, skipped, warnings,
                   row_errors, prompted, response, reported, ix, cleared, docs0>>

\* variant: a row loop that logs a failing row and goes on
CSkipRow(e) ==
    /\ err' = e
    /\ idx' = idx + 1
    /\ pc' = "stream"
    /\ UNCHANGED <<docs, imported, exit_code, failed_msg, client, closes, exits>>

\* lines 75-79 and 150-152: the except clause returns False, the finally
\* clause closes the client, main prints the failure and exits with status 1
CFail(e) ==
    /\ Exit(1)
    /\ failed_msg' = TRUE
    /\ err' = e
    /\ client' = "closed"
    /\ closes' = closes + 1
    /\ UNCHANGED <<docs, imported, idx>>

\* lines 52-70: one iteration of the row loop
CRow ==
    /\ pc = "stream"
    /\ idx <= Len(file.rows)
    /\ LET row == file.rows[idx]
       IN  IF clockodo_document_raises(file, row)
           THEN CFail(IF file.header_ok THEN "ValueError" ELSE "KeyError")
           ELSE \E insert_ok \in BOOLEAN :
                  IF ~insert_ok
                  THEN CFail("SinkError")
                  ELSE /\ docs' = insert_one(docs, clockodo_document(row))
                       /\ imported' = imported + 1
                       /\ idx' = idx + 1
                       /\ Continue("stream")
    /\ UNCHANGED <<file, indexes, run, skipped, warnings, row_errors, prompted,
                   response, reported, ix, cleared, docs0>>

\* lines 72-73, 78-79 and 144-149: the reader is exhausted; success
CFinish ==
    /\ pc = "stream"
    /\ idx > Len(file.rows)
    /\ reported' = TRUE
    /\ Exit(0)
    /\ err' = "none"
    /\ client' = "closed"
    /\ closes' = closes + 1
    /\ UNCHANGED <<file, docs, indexes, run, idx, imported, skipped, warnings,
                   row_errors, prompted, response, failed_msg, ix, cleared, docs0>>

NextClock ==
    \/ CStart
    \/ CConnect
    \/ CRow
    \/ CFinish

SpecClock == InitClock /\ [][NextClock]_vars

(***************************************************************************)
(* Properties.                                                             *)
(***************************************************************************)
IsPrefix(a, b) == Len(a) <= Len(b) /\ SubSeq(b, 1, Len(a)) = a

\* the collection as the row loop of this run found it
Base == IF cleared THEN <<>> ELSE docs0

\* the number of documents this run has inserted after those of Base
Added == Len(docs) - Len(Base)

\* the process is about to handle row idx of the file
AtRow == pc = "stream" /\ idx <= Len(file.rows)

\* C1: in every reachable state of the deals collection no two documents
\* have the same deal_id value, whatever rows were imported (rows with an
\* empty 'Deal - ID' and rows that repeat an identifier included).
C1_UniqueDealIds == ~HasDuplicateId(docs)

\* C2: a row whose deal identifier is already carried by a document of the
\* collection (the sink answering) is skipped: the skipped counter goes up by
\* one, the imported counter does not, no row-processing error is logged and
\* the collection still holds exactly one document with that identifier.
C2_SecondAttemptSkipped ==
    [][ (AtRow /\ file.header_ok /\ find_one(docs, file.rows[idx].id)
           /\ err' # "SinkError")
        => /\ skipped' = skipped + 1
           /\ imported' = imported
           /\ row_errors' = row_errors
           /\ CountId(docs', file.rows[idx].id) = 1 ]_vars

\* C3: a successful timesheet run adds exactly one document per row of the
\* file, in order, after whatever the collection held; two successful runs
\* of the same file from the empty collection leave twice as many documents
\* as the file has rows.
C3_AppendOnly ==
    /\ (pc = "done" /\ exit_code = 0) =>
          /\ Len(docs) = Len(docs0) + Len(file.rows)
          /\ IsPrefix(docs0, docs)
    /\ (pc = "done" /\ exits = <<0, 0>>) => Len(docs) = 2 * Len(file.rows)

C3_Witness ==
    /\ pc = "done" /\ exits = <<0, 0>>
    /\ Len(file.rows) = 2 /\ Len(docs) = 4
    /\ docs[1] = docs[3]

\* C4: a deals row whose transformation, lookup or insertion raises adds no
\* document and changes neither counter; one error line is logged and the
\* loop goes on with the next row.  When the counts are reported every row
\* of the file was handled: imported, skipped or logged as failed.
C4_RowRecovery ==
    /\ [][ (AtRow /\ err' # "none")
           => /\ docs' = docs
              /\ imported' = imported
              /\ skipped' = skipped
              /\ row_errors' = row_errors + 1
              /\ pc' = "stream" /\ idx' = idx + 1
              /\ exit_code' = -1 ]_vars
    /\ [](reported => /\ idx = Len(file.rows) + 1
                      /\ imported + skipped + row_errors = Len(file.rows))
    /\ [](pc = "stream" => (exit_code = -1 /\ client = "open"))

C4_Witness ==
    /\ pc = "index" /\ reported
    /\ Len(file.rows) = 2 /\ file.rows[1].id # file.rows[2].id
    /\ row_errors = 1 /\ imported = 1
    /\ docs = Base \o << transform_deal_row(file.rows[2]) >>

\* C5: in the timesheet import no row at or after the first row that fails
\* to transform is inserted; a run in which a row failed (transformation or
\* insertion) stopped at that row, printed the failure and exited with
\* status 1; a run that exits with status 0 met no failing row.
C5_FatalRow ==
    /\ \A k \in 1..Len(file.rows) :
         clockodo_document_raises(file, file.rows[k]) => Len(docs) - Len(docs0) < k
    /\ (pc = "done" /\ err \in {"ValueError", "KeyError", "SinkError"}) =>
          /\ exit_code = 1 /\ failed_msg /\ ~reported
          /\ idx <= Len(file.rows)
          /\ Len(docs) = Len(docs0) + idx - 1
    /\ (pc = "done" /\ exit_code = 0) =>
          \A k \in 1..Len(file.rows) : ~clockodo_document_raises(file, file.rows[k])

C5_Witness ==
    /\ pc = "done" /\ err = "ValueError" /\ exit_code = 1
    /\ Len(file.rows) = 2 /\ idx = 1
    /\ ~clockodo_document_raises(file, file.rows[2])
    /\ docs = docs0

\* C6: at the end of a process that created the database client, the client
\* was closed exactly once, and a closed client belongs to an ended process.
C6_ClientClosedOnce ==
    /\ (pc = "done" /\ client # "none") => (client = "closed" /\ closes = 1)
    /\ client = "closed" => pc = "done"

\* C7: the prompt is shown only when the collection is not empty; an answer
\* other than y or Y issues no delete and leaves the collection as it is; no
\* other step removes a document, so without a clear every document present
\* when the run started is still there, unchanged.
Affirmative(r) == r \in { <<"y">>, <<"Y">> }

C7_ClearOnlyOnYes ==
    /\ []((pc \in {"prompt", "answer"} \/ prompted) => Len(docs0) > 0)
    /\ [](~cleared => IsPrefix(docs0, docs))
    /\ [][ (pc = "answer" /\ ~Affirmative(response))
           => (docs' = docs /\ ~cleared') ]_vars
    /\ [][ ~IsPrefix(docs, docs') => (pc = "answer" /\ Affirmative(response)) ]_vars

C7_Witness ==
    /\ pc = "done" /\ exit_code = 0
    /\ prompted /\ ~cleared
    /\ Len(docs0) > 0 /\ IsPrefix(docs0, docs)

\* C8 as claimed: each timesheet string field is stored with at most one
\* quote character removed from each end.
OneLayer(s) ==
    LET a == IF s # <<>> /\ Head(s) = Quote THEN Tail(s) ELSE s
    IN  IF a # <<>> /\ a[Len(a)] = Quote THEN SubSeq(a, 1, Len(a) - 1) ELSE a

StringFields == {"kunde", "projekt", "leistung", "mitarbeiter"}

C8_OneLayerStripped ==
    \A i \in 1..(Len(docs) - Len(docs0)) : \A f \in StringFields :
        docs[Len(docs0) + i][f] = OneLayer(file.rows[i][f])

\* C8 as amended: each timesheet string field is stored as the source value
\* without its leading and trailing quote characters, all of them: the
\* source is quotes, then the stored value, then quotes, and the stored
\* value neither starts nor ends with a quote.
QuotesAround(src, st) ==
    \E a, b \in 0..Len(src) :
        /\ a + Len(st) + b = Len(src)
        /\ \A j \in 1..a : src[j] = Quote
        /\ \A j \in (Len(src) - b + 1)..Len(src) : src[j] = Quote
        /\ st = SubSeq(src, a + 1, Len(src) - b)
        /\ st # <<>> => (st[1] # Quote /\ st[Len(st)] # Quote)

C8_AllQuotesStripped ==
    \A i \in 1..(Len(docs) - Len(docs0)) : \A f \in StringFields :
        QuotesAround(file.rows[i][f], docs[Len(docs0) + i][f])

C8_Witness ==
    /\ Len(docs) = Len(docs0) + 1
    /\ file.rows[1].kunde = <<Quote, Quote, "a">>
    /\ docs[Len(docs)].kunde = <<"a">>

\* C9: a deals row whose number is malformed, and whose identifier is not yet
\* in the collection, is inserted with the field None and one warning, as
\* long as the sink does not fail; a file of rows with distinct identifiers
\* new to the collection, none of which met a failure, ends with one document
\* per row, imported count the number of rows, malformed fields None.
MalformedNumber(w) == PyStrip(w, Whitespace) # <<>> /\ ~FloatAccepts(w)

DistinctIds(rows) ==
    \A i, j \in 1..Len(rows) : i # j => rows[i].id # rows[j].id

C10_Finalize ==
    /\ pc = "stream" => ix = 0
    /\ ix > 0 => reported
    /\ (pc = "done" /\ reported /\ err # "SinkError") =>
          /\ exit_code = 0
          /\ \A i \in 1..Len(DealIndexes) : DealIndexes[i] \in indexes

====
